---- MODULE Spec2Model ----
(***************************************************************************)
(* Model of the multimodal performance synthesis pipeline of chara-weave:   *)
(* MultimodalPerformanceSynthesizerCore.synthesizePerformance and the       *)
(* collaborators it drives (src/lib/types/character-types.ts).              *)
(*                                                                          *)
(* Scores are percentages (0.93 in the source is 93 here), durations are    *)
(* milliseconds.  One synthesizePerformance call is in flight at a time; it *)
(* is an async function, so it is modelled as one action per stretch of     *)
(* code between two suspension points (await).  The three generators are    *)
(* the pluggable collaborators behind the VisualGenerator, AudioGenerator   *)
(* and AnimationGenerator interfaces: their results are inputs of the       *)
(* model, and the values of the built-in generators are among them.         *)
(***************************************************************************)
EXTENDS Integers, Sequences, FiniteSets, TLC

VARIABLES
    pc,                 \* position of the synthesizePerformance call
    runs,               \* number of synthesizePerformance calls made so far
    instructions,       \* the PerformanceInstructionSet of the current call
    gen,                \* per modality: the promise of the generator wrapper
    invocations,        \* per modality: generator invocations in this call
    allRejection,       \* the reason Promise.all rejected with, if it did
    cancelRequested,    \* the caller has asked to cancel the current call
    synchronizedOutput, \* result of synchronizeOutputs
    qualityCheck,       \* result of validateQuality
    consistencyCheck,   \* result of validateConsistency
    finalPerformance,   \* result of generateFinalPerformance
    outcome,            \* what the call returned or threw
    scoring,            \* the validators applied on their own to one input
    now,                \* the clock Date.now() and new Date() read
    characterOntology,  \* the ontology the synthesizer was constructed from
    characterModel,     \* the synthesizer's characterModel field
    req,                \* per request: the state of a concurrent call
    synthesisStatus,    \* PerformanceSynthesizer: the synthesisStatus state
    synthesisRuns,      \* per handleSynthesizePerformance run: its position
    description,        \* CharacterCreator: the description state
    isCreating,         \* CharacterCreator: the isCreating state
    character,          \* CharacterCreator: the character state
    lastToast,          \* CharacterCreator: title of the last toast shown
    creations,          \* per createCharacter call: its position and result
    characters,         \* CastingStudioDashboard: the characters state
    activeTab           \* CastingStudioDashboard: the activeTab state

vars == <<pc, runs, instructions, gen, invocations, allRejection,
          cancelRequested, synchronizedOutput, qualityCheck,
          consistencyCheck, finalPerformance, outcome, scoring,
          now, characterOntology, characterModel, req,
          synthesisStatus, synthesisRuns, description, isCreating, character,
          lastToast, creations, characters, activeTab>>

\* the state of one synthesizePerformance call
coreVars == <<pc, runs, instructions, gen, invocations, allRejection,
              cancelRequested, synchronizedOutput, qualityCheck,
              consistencyCheck, finalPerformance, outcome>>

\* the clock and the synthesizer object
clockVars == <<now>>
modelVars == <<characterOntology, characterModel>>

\* what one synthesizePerformance call leaves alone
extraVars == <<clockVars, modelVars, req, synthesisStatus, synthesisRuns,
               description, isCreating, character, lastToast, creations,
               characters, activeTab>>

\* the state of the CharacterCreator component, of the engine calls it makes
\* and of the dashboard it reports to
creatorVars == <<description, isCreating, character, lastToast, creations,
                 characters, activeTab>>

\* the state of the PerformanceSynthesizer component
panelVars == <<synthesisStatus, synthesisRuns>>

----------------------------------------------------------------------------
(* Bounds and input sets *)

\* synthesizePerformance calls per behaviour
MaxRuns == 2

\* calls of each validator on one SynchronizedPerformance
MaxScoreCalls == 2

Modalities == {"visual", "audio", "animation"}

\* id of the UnifiedCharacterOntology the synthesizer was constructed from
OntologyId == "char-A"

\* characterId values a caller may put in a PerformanceInstructionSet
CharacterIds == {"char-A", "char-B"}

\* a performance that carries no duration (the built-in visual performance)
NoDuration == -1

\* timing hints (audioInstructions[i].timing, in milliseconds) an instruction
\* set may carry, in order: none, one, two distinct ones
AnchorSets == {<<>>, <<100>>, <<100, 300>>}

\* durations a generator may report: 0 is what the built-in audio and
\* animation generators report; 1100 and 1200 are 1.10 and 1.20 times 1000
Durations == {NoDuration, 0, 1000, 1100, 1200}

\* quality.overall self-reported by the built-in generators
BuiltinQuality(m) ==
    CASE m = "visual" -> 96
      [] m = "audio" -> 94
      [] m = "animation" -> 92

\* quality.overall a generator may self-report
Qualities(m) == {BuiltinQuality(m), 50}

\* why a generator call fails: its deadline passed, or the backend refused
Causes == {"timeout", "rejected"}

NoValue == [kind |-> "none"]

\* the object literal {}
EmptyObject == [kind |-> "object"]

\* an optional property of a JavaScript object: missing, or holding a value
Absent == [present |-> FALSE]
Some(v) == [present |-> TRUE, value |-> v]

\* the voiceIdentity of the ontologies a synthesizer is constructed from:
\* missing, complete, and present with its fields empty or missing
VoiceIdentities ==
    {Absent,
     Some([voiceType |-> Some("Balanced and Warm"), accent |-> Some("Neutral"),
           speechPatterns |-> Some(<<"formal">>)]),
     Some([voiceType |-> Some(""), accent |-> Absent,
           speechPatterns |-> Absent])}

Ontologies == [id : {OntologyId}, voiceIdentity : VoiceIdentities]

\* the ontology CharacterDefinitionEngine builds: every voice field filled
CompleteOntology ==
    [id |-> OntologyId,
     voiceIdentity |-> Some([voiceType |-> Some("Balanced and Warm"),
                             accent |-> Some("Neutral"),
                             speechPatterns |-> Some(<<"formal">>)])]

----------------------------------------------------------------------------
(* Promises of the generator wrappers *)

Pending == [status |-> "pending", duration |-> NoDuration, quality |-> 0,
            cause |-> "none"]

NotCalled == [status |-> "idle", duration |-> NoDuration, quality |-> 0,
              cause |-> "none"]

Fulfilled(d, q) == [status |-> "fulfilled", duration |-> d, quality |-> q,
                    cause |-> "none"]

Rejected(c) == [status |-> "rejected", duration |-> NoDuration, quality |-> 0,
                cause |-> c]

\* the ModalityPerformance a fulfilled promise carries
Performance(p) == [duration |-> p.duration, quality |-> p.quality]

\* a join that lets the run go on as soon as one wrapper is fulfilled
PromiseAnyFulfilled(g) == \E m \in Modalities : g[m].status = "fulfilled"

\* Promise.all over the three wrappers: fulfilled when every one is
PromiseAllFulfilled(g) == \A m \in Modalities : g[m].status = "fulfilled"

----------------------------------------------------------------------------
(* Pure functions of the core *)

\* SynchronizationEngine.synchronizeOutputs
synchronizeOutputs(visual, audio, animation) ==
    [visual |-> visual,
     audio |-> audio,
     animation |-> animation,
     synchronization |-> [sync_points |-> <<>>,
                          timing_alignment |-> EmptyObject,
                          emotional_alignment |-> EmptyObject,
                          performance_alignment |-> EmptyObject,
                          quality_alignment |-> EmptyObject,
                          consistency_alignment |-> EmptyObject],
     quality_metrics |-> [overall_quality |-> 93, performance_quality |-> 94],
     consistency_check |-> [overall_consistency |-> 91]]

\* a validator that keeps a count of its calls and lets it into the score
validateQualityCounting(synchronized) ==
    [visual_quality |-> 96,
     audio_quality |-> 94,
     animation_quality |-> 92,
     synchronization_quality |-> 90,
     overall_quality |-> IF scoring = NoValue THEN 93
                         ELSE 93 - Len(scoring.quality),
     performance_quality |-> 94]

\* validateQuality
validateQuality(synchronized) ==
    [visual_quality |-> 96,
     audio_quality |-> 94,
     animation_quality |-> 92,
     synchronization_quality |-> 90,
     overall_quality |-> 93,
     performance_quality |-> 94]

\* validateConsistency
validateConsistency(synchronized) ==
    [character_consistency |-> [visual |-> 95, audio |-> 93, animation |-> 91],
     emotional_consistency |-> [cross_modal |-> 92, temporal |-> 90],
     overall_consistency |-> 91]

\* ontology.voiceIdentity?.field
OptionalChain(voiceIdentity, field) ==
    IF voiceIdentity.present THEN voiceIdentity.value[field] ELSE Absent

\* string || fallback: a missing or empty string is falsy
StringOr(x, fallback) ==
    IF x.present /\ x.value # "" THEN x.value ELSE fallback

\* array || fallback: only a missing array is falsy
ArrayOr(x, fallback) == IF x.present THEN x.value ELSE fallback

\* a voice extraction that reads voiceIdentity without guarding it
extractBaseVoiceUnguarded(ontology) ==
    IF ontology.voiceIdentity.present
    THEN [timbre |-> StringOr(ontology.voiceIdentity.value.voiceType, "neutral"),
          pitch |-> 50,
          tempo |-> 50,
          accent |-> StringOr(ontology.voiceIdentity.value.accent, "neutral"),
          speech_patterns |-> ArrayOr(ontology.voiceIdentity.value.speechPatterns,
                                      <<>>),
          vocal_habits |-> <<>>]
    ELSE [kind |-> "TypeError"]

\* extractBaseVoice
extractBaseVoice(ontology) ==
    [timbre |-> StringOr(OptionalChain(ontology.voiceIdentity, "voiceType"),
                         "neutral"),
     pitch |-> 50,
     tempo |-> 50,
     accent |-> StringOr(OptionalChain(ontology.voiceIdentity, "accent"),
                         "neutral"),
     speech_patterns |-> ArrayOr(OptionalChain(ontology.voiceIdentity,
                                               "speechPatterns"), <<>>),
     vocal_habits |-> <<>>]

\* initializeCharacterModel
initializeCharacterModel(ontology) ==
    [baseAppearance |-> EmptyObject,
     baseVoice |-> extractBaseVoice(ontology),
     baseAnimation |-> EmptyObject,
     emotionalModifications |-> EmptyObject,
     performanceModifications |-> EmptyObject,
     consistencyParameters |-> EmptyObject]

\* generateFinalPerformance
generateFinalPerformance(synchronized, quality, consistency) ==
    [video |-> [format |-> "mp4", duration |-> 0],
     audio |-> [format |-> "wav", duration |-> 0],
     animation |-> [format |-> "fbx", duration |-> 0],
     metadata |-> [generation_time |-> now,
                   quality_score |-> quality.overall_quality,
                   consistency_score |-> consistency.overall_consistency],
     quality_report |-> [overall_score |-> quality.overall_quality,
                         metrics |-> quality],
     consistency_report |-> [overall_score |-> consistency.overall_consistency,
                             metrics |-> consistency]]

\* a return value whose cost grows with the clock
ReturnValueTimedCost(g, quality, consistency) ==
    [kind |-> "SynthesizedPerformance",
     characterId |-> "temp-id",
     timestamp |-> now,
     visual |-> Performance(g["visual"]),
     audio |-> Performance(g["audio"]),
     animation |-> Performance(g["animation"]),
     metadata |-> [generationTime |-> now,
                   modelUsed |-> "multimodal-v1",
                   qualityScore |-> quality.overall_quality,
                   consistencyScore |-> consistency.overall_consistency,
                   cost |-> 5 + now,
                   version |-> "1.0.0"]]

\* the object synthesizePerformance returns (cost 0.05 is 5 here)
ReturnValue(g, quality, consistency) ==
    [kind |-> "SynthesizedPerformance",
     characterId |-> "temp-id",
     timestamp |-> now,
     visual |-> Performance(g["visual"]),
     audio |-> Performance(g["audio"]),
     animation |-> Performance(g["animation"]),
     metadata |-> [generationTime |-> now,
                   modelUsed |-> "multimodal-v1",
                   qualityScore |-> quality.overall_quality,
                   consistencyScore |-> consistency.overall_consistency,
                   cost |-> 5,
                   version |-> "1.0.0"]]

\* the Error the catch block throws
ThrownError(reason) ==
    [kind |-> "Error",
     message |-> "Performance synthesis failed",
     cause |-> reason]

----------------------------------------------------------------------------
(* Initial state: the synthesizer has been constructed, no call made *)

\* requests made concurrently on one synthesizer
Requests == {1, 2}

\* the locals of a synthesizePerformance call that has not been made
NoRequest ==
    [pc |-> "idle", instructions |-> NoValue,
     gen |-> [m \in Modalities |-> NotCalled], allRejection |-> NoValue,
     synchronizedOutput |-> NoValue, qualityCheck |-> NoValue,
     consistencyCheck |-> NoValue, finalPerformance |-> NoValue,
     outcome |-> NoValue]

\* the constructor has run on the given ontology
Constructed(ontology) ==
    /\ characterOntology = ontology
    /\ characterModel = initializeCharacterModel(ontology)
    /\ now = 0
    /\ req = [r \in Requests |-> NoRequest]
    /\ synthesisStatus = [phase |-> "idle", progress |-> 0,
                          message |-> "Ready to synthesize performance"]
    /\ synthesisRuns = <<>>
    /\ description = <<>>
    /\ isCreating = FALSE
    /\ character = NoValue
    /\ lastToast = "none"
    /\ creations = <<>>
    /\ characters = <<>>
    /\ activeTab = "overview"
    /\ pc = "idle"
    /\ runs = 0
    /\ instructions = NoValue
    /\ gen = [m \in Modalities |-> NotCalled]
    /\ invocations = [m \in Modalities |-> 0]
    /\ allRejection = NoValue
    /\ cancelRequested = FALSE
    /\ synchronizedOutput = NoValue
    /\ qualityCheck = NoValue
    /\ consistencyCheck = NoValue
    /\ finalPerformance = NoValue
    /\ outcome = NoValue
    /\ scoring = NoValue

Init == Constructed(CompleteOntology)

\* the synthesizer may have been constructed from any of the ontologies
InitAnyOntology == \E ontology \in Ontologies : Constructed(ontology)

----------------------------------------------------------------------------
(* Actions *)

\* synthesizePerformance is called: the three generator wrappers are called
\* one after the other and the call suspends on Promise.all
Synthesize(cid, anchors) ==
    /\ pc \in {"idle", "returned", "thrown"}
    /\ runs < MaxRuns
    /\ runs' = runs + 1
    /\ instructions' = [kind |-> "PerformanceInstructionSet",
                        characterId |-> cid, anchors |-> anchors]
    /\ gen' = [m \in Modalities |-> Pending]
    /\ invocations' = [m \in Modalities |-> 1]
    /\ allRejection' = NoValue
    /\ cancelRequested' = FALSE
    /\ synchronizedOutput' = NoValue
    /\ qualityCheck' = NoValue
    /\ consistencyCheck' = NoValue
    /\ finalPerformance' = NoValue
    /\ outcome' = NoValue
    /\ pc' = "awaitGenerators"
    /\ UNCHANGED <<scoring, extraVars>>

\* a generator returns its performance: the wrapper's promise is fulfilled
GeneratorFulfils(m, d, q) ==
    /\ gen[m].status = "pending"
    /\ gen' = [gen EXCEPT ![m] = Fulfilled(d, q)]
    /\ UNCHANGED <<scoring, extraVars>>
    /\ UNCHANGED <<pc, runs, instructions, invocations, allRejection,
                   cancelRequested, synchronizedOutput, qualityCheck,
                   consistencyCheck, finalPerformance, outcome>>

\* a rejection that also cancels the generator calls still pending
GeneratorRejectsCancelling(m, c) ==
    /\ gen[m].status = "pending"
    /\ gen' = [o \in Modalities |->
                  IF o = m THEN Rejected(c)
                  ELSE IF gen[o].status = "pending" THEN Rejected("cancelled")
                  ELSE gen[o]]
    /\ allRejection' = IF allRejection = NoValue
                       THEN [kind |-> "rejection", modality |-> m, cause |-> c]
                       ELSE allRejection
    /\ UNCHANGED <<scoring, extraVars>>
    /\ UNCHANGED <<pc, runs, instructions, invocations, cancelRequested,
                   synchronizedOutput, qualityCheck, consistencyCheck,
                   finalPerformance, outcome>>

\* a generator throws: the wrapper's promise is rejected, and Promise.all
\* rejects with the first rejection it sees
GeneratorRejects(m, c) ==
    /\ gen[m].status = "pending"
    /\ gen' = [gen EXCEPT ![m] = Rejected(c)]
    /\ allRejection' = IF allRejection = NoValue
                       THEN [kind |-> "rejection", modality |-> m, cause |-> c]
                       ELSE allRejection
    /\ UNCHANGED <<scoring, extraVars>>
    /\ UNCHANGED <<pc, runs, instructions, invocations, cancelRequested,
                   synchronizedOutput, qualityCheck, consistencyCheck,
                   finalPerformance, outcome>>

\* the caller asks to cancel the call in flight; synthesizePerformance takes
\* no cancellation parameter, so nothing in the core observes it
CancelScope ==
    /\ pc = "awaitGenerators"
    /\ ~cancelRequested
    /\ cancelRequested' = TRUE
    /\ UNCHANGED <<scoring, extraVars>>
    /\ UNCHANGED <<pc, runs, instructions, gen, invocations, allRejection,
                   synchronizedOutput, qualityCheck, consistencyCheck,
                   finalPerformance, outcome>>

\* Promise.all fulfilled: phase 2, synchronizeOutputs is called
ResumeSynchronize ==
    /\ pc = "awaitGenerators"
    /\ allRejection = NoValue
    /\ PromiseAllFulfilled(gen)
    /\ synchronizedOutput' = synchronizeOutputs(Performance(gen["visual"]),
                                                Performance(gen["audio"]),
                                                Performance(gen["animation"]))
    /\ pc' = "awaitSynchronize"
    /\ UNCHANGED <<scoring, extraVars>>
    /\ UNCHANGED <<runs, instructions, gen, invocations, allRejection,
                   cancelRequested, qualityCheck, consistencyCheck,
                   finalPerformance, outcome>>

\* validators started as soon as the generators are done, without waiting
\* for synchronizeOutputs
ResumeValidateEarly ==
    /\ pc = "awaitGenerators"
    /\ allRejection = NoValue
    /\ PromiseAllFulfilled(gen)
    /\ qualityCheck' = validateQuality(synchronizedOutput)
    /\ consistencyCheck' = validateConsistency(synchronizedOutput)
    /\ pc' = "awaitValidators"
    /\ UNCHANGED <<scoring, extraVars>>
    /\ UNCHANGED <<runs, instructions, gen, invocations, allRejection,
                   cancelRequested, synchronizedOutput, finalPerformance,
                   outcome>>

\* phase 3: validateQuality, then validateConsistency are called
ResumeValidate ==
    /\ pc = "awaitSynchronize"
    /\ qualityCheck' = validateQuality(synchronizedOutput)
    /\ consistencyCheck' = validateConsistency(synchronizedOutput)
    /\ pc' = "awaitValidators"
    /\ UNCHANGED <<scoring, extraVars>>
    /\ UNCHANGED <<runs, instructions, gen, invocations, allRejection,
                   cancelRequested, synchronizedOutput, finalPerformance,
                   outcome>>

\* phase 4: generateFinalPerformance is called
ResumeFinal ==
    /\ pc = "awaitValidators"
    /\ finalPerformance' = generateFinalPerformance(synchronizedOutput,
                                                    qualityCheck,
                                                    consistencyCheck)
    /\ pc' = "awaitFinal"
    /\ UNCHANGED <<scoring, extraVars>>
    /\ UNCHANGED <<runs, instructions, gen, invocations, allRejection,
                   cancelRequested, synchronizedOutput, qualityCheck,
                   consistencyCheck, outcome>>

\* the call returns the SynthesizedPerformance
Return ==
    /\ pc = "awaitFinal"
    /\ outcome' = ReturnValue(gen, qualityCheck, consistencyCheck)
    /\ pc' = "returned"
    /\ UNCHANGED <<scoring, extraVars>>
    /\ UNCHANGED <<runs, instructions, gen, invocations, allRejection,
                   cancelRequested, synchronizedOutput, qualityCheck,
                   consistencyCheck, finalPerformance>>

\* Promise.all rejected: the catch block wraps the reason in an Error
Catch ==
    /\ pc = "awaitGenerators"
    /\ allRejection # NoValue
    /\ outcome' = ThrownError(allRejection.cause)
    /\ pc' = "thrown"
    /\ UNCHANGED <<scoring, extraVars>>
    /\ UNCHANGED <<runs, instructions, gen, invocations, allRejection,
                   cancelRequested, synchronizedOutput, qualityCheck,
                   consistencyCheck, finalPerformance>>

Next ==
    \/ \E cid \in CharacterIds, anchors \in AnchorSets : Synthesize(cid, anchors)
    \/ \E m \in Modalities, d \in Durations : \E q \in Qualities(m) :
           GeneratorFulfils(m, d, q)
    \/ \E m \in Modalities, c \in Causes : GeneratorRejects(m, c)
    \/ CancelScope
    \/ ResumeSynchronize
    \/ ResumeValidate
    \/ ResumeFinal
    \/ Return
    \/ Catch

Spec == Init /\ [][Next]_vars

\* the same calls on a synthesizer constructed from any ontology
SpecAnyOntology == InitAnyOntology /\ [][Next]_vars

----------------------------------------------------------------------------
(* The validators applied on their own: a SynchronizedPerformance is built  *)
(* from three performances drawn from the input sets, and validateQuality   *)
(* and validateConsistency are then called on it, in any order, up to       *)
(* MaxScoreCalls times each.                                                *)

Performances(m) == [duration : Durations, quality : Qualities(m)]

ScoreLoad(visual, audio, animation) ==
    /\ scoring = NoValue
    /\ scoring' = [kind |-> "scoring",
                   input |-> synchronizeOutputs(visual, audio, animation),
                   quality |-> <<>>,
                   consistency |-> <<>>]
    /\ UNCHANGED <<coreVars, extraVars>>

ScoreQuality ==
    /\ scoring # NoValue
    /\ Len(scoring.quality) < MaxScoreCalls
    /\ scoring' = [scoring EXCEPT
                       !.quality = Append(@, validateQuality(scoring.input))]
    /\ UNCHANGED <<coreVars, extraVars>>

ScoreConsistency ==
    /\ scoring # NoValue
    /\ Len(scoring.consistency) < MaxScoreCalls
    /\ scoring' = [scoring EXCEPT
                       !.consistency = Append(@, validateConsistency(scoring.input))]
    /\ UNCHANGED <<coreVars, extraVars>>

ScoringNext ==
    \/ \E visual \in Performances("visual"), audio \in Performances("audio"),
          animation \in Performances("animation") :
           ScoreLoad(visual, audio, animation)
    \/ ScoreQuality
    \/ ScoreConsistency

SpecScoring == Init /\ [][ScoringNext]_vars

----------------------------------------------------------------------------
(* Notions of the design the claims are stated with *)

\* the run has ended: the call returned or threw
Ended == pc \in {"returned", "thrown"}

\* synchronizeOutputs has returned a SynchronizedPerformance
Synchronized == synchronizedOutput # NoValue

\* the call handed the caller a performance
PerformanceReturned == outcome.kind = "SynthesizedPerformance"

Max2(a, b) == IF a >= b THEN a ELSE b

\* every modality has a positive duration, none more than 15% off the longest
WithinTolerance(g) ==
    LET ref == Max2(g["visual"].duration,
                    Max2(g["audio"].duration, g["animation"].duration))
    IN  \A m \in Modalities :
            /\ g[m].duration > 0
            /\ (ref - g[m].duration) * 100 <= 15 * ref

\* minimum thresholds a deployment may configure, in percent (the design
\* defaults are 75 for quality and 80 for consistency)
Thresholds == 0 .. 100

----------------------------------------------------------------------------
(* Claims *)

\* C1: whenever all three generators succeed with durations within
\* tolerance and the call returns, sync_points is non-empty and strictly
\* increasing in timestamp.
C1_SyncPointsIncreasing ==
    (pc = "returned" /\ WithinTolerance(gen)) =>
        LET sp == synchronizedOutput.synchronization.sync_points
        IN  /\ Len(sp) > 0
            /\ \A i, j \in 1 .. Len(sp) :
                   i < j => sp[i].timestamp < sp[j].timestamp

\* C2: whenever the quality validator's aggregate score is below the
\* configured qualityMinThreshold, the run ends in QualityGateFailed carrying
\* that scorecard and never in a performance.
C2_QualityGate ==
    \A t \in Thresholds :
        (Ended /\ qualityCheck # NoValue /\ qualityCheck.overall_quality < t) =>
            /\ outcome.kind = "QualityGateFailed"
            /\ outcome.scorecard = qualityCheck

\* C3: whenever the consistency validator's aggregate score is below the
\* configured consistencyMinThreshold, the run ends in ConsistencyGateFailed
\* carrying the scorecard, with no generator invoked again, and never in a
\* performance.
C3_ConsistencyGate ==
    \A t \in Thresholds :
        (Ended /\ consistencyCheck # NoValue
               /\ consistencyCheck.overall_consistency < t) =>
            /\ outcome.kind = "ConsistencyGateFailed"
            /\ outcome.scorecard = consistencyCheck
            /\ \A m \in Modalities : invocations[m] = 1

\* C4: join barrier.  synchronizeOutputs has been invoked only if all three
\* generator promises are fulfilled, it was given exactly their three
\* performances, and it is never invoked in a run where a generator failed.
C4_JoinBarrier ==
    /\ Synchronized =>
           /\ \A m \in Modalities : gen[m].status = "fulfilled"
           /\ \A m \in Modalities : synchronizedOutput[m] = Performance(gen[m])
    /\ (\E m \in Modalities : gen[m].status = "rejected") => ~Synchronized

\* C4 witness: synchronizeOutputs has just been invoked on three performances
\* that all differ, so each came from its own generator.
C4_Witness ==
    /\ pc = "awaitSynchronize"
    /\ Synchronized
    /\ gen["visual"].duration = 1000
    /\ gen["audio"].duration = 1100
    /\ gen["animation"].duration = 1200

\* C5: fail-fast.  When the run has failed because a generator was rejected
\* by its backend, the failure is GenerationFailed naming that modality and
\* no other generator call is left running.
C5_FailFast ==
    (pc = "thrown" /\ allRejection # NoValue /\ allRejection.cause = "rejected") =>
        /\ outcome.kind = "GenerationFailed"
        /\ outcome.modality = allRejection.modality
        /\ \A m \in Modalities : gen[m].status # "pending"

\* C6: retry policy.  A run fails on a generator's timeout only after that
\* generator was invoked a second time; a generator rejected by its backend
\* was invoked once; no generator is invoked more than twice.
C6_RetryPolicy ==
    /\ (pc = "thrown" /\ allRejection # NoValue /\ allRejection.cause = "timeout") =>
           invocations[allRejection.modality] = 2
    /\ \A m \in Modalities :
           (gen[m].status = "rejected" /\ gen[m].cause = "rejected") =>
               invocations[m] = 1
    /\ \A m \in Modalities : invocations[m] <= 2

\* C7: a run whose instructions.characterId is not the character the
\* synthesizer was built for ends in MismatchedCharacter, with no performance.
C7_MismatchedCharacter ==
    (Ended /\ instructions.characterId # OntologyId) =>
        outcome.kind = "MismatchedCharacter"

\* C8: once the caller has cancelled a run while generator calls were
\* pending, the run never hands back a performance and no generator call is
\* still pending when it ends.
C8_Cancellation ==
    cancelRequested =>
        /\ ~PerformanceReturned
        /\ Ended => \A m \in Modalities : gen[m].status # "pending"

\* C9: no partial output.  A run ends in a performance or in a failure, and
\* in a failure whenever a stage failed: a generator failed, or an aggregate
\* score is below a configured gate threshold.
C9_NoPartialOutput ==
    /\ Ended => outcome.kind \in {"SynthesizedPerformance", "Error"}
    /\ (Ended /\ \E m \in Modalities : gen[m].status = "rejected") =>
           ~PerformanceReturned
    /\ \A t \in Thresholds :
           (Ended /\ qualityCheck # NoValue
                  /\ (\/ qualityCheck.overall_quality < t
                      \/ consistencyCheck.overall_consistency < t)) =>
               ~PerformanceReturned

\* C10: divergence boundary.  With visual and audio of equal duration,
\* synchronization never succeeds when the animation lasts 1.20 times as
\* long, and a run whose animation lasts 1.10 times as long is synchronized.
C10_DivergenceBoundary ==
    LET v == gen["visual"].duration
        a == gen["audio"].duration
        n == gen["animation"].duration
    IN  /\ (PromiseAllFulfilled(gen) /\ v > 0 /\ v = a /\ n * 100 = 120 * v) =>
               ~Synchronized
        /\ (PromiseAllFulfilled(gen) /\ v > 0 /\ v = a /\ n * 100 = 110 * v
                /\ pc # "awaitGenerators") =>
               Synchronized

\* C11: a run in which some modality performance has zero duration is never
\* synchronized and never hands back a performance (the built-in audio and
\* animation generators report duration 0).
C11_DegenerateOutput ==
    (PromiseAllFulfilled(gen) /\ \E m \in Modalities : gen[m].duration = 0) =>
        /\ ~Synchronized
        /\ ~PerformanceReturned

\* qualityWeights a deployment may configure, in percent: two that sum to
\* 100 and one that sums to 90
ValidWeights ==
    {[visual |-> 25, audio |-> 25, animation |-> 25, sync |-> 25],
     [visual |-> 40, audio |-> 30, animation |-> 20, sync |-> 10]}

InvalidWeights ==
    {[visual |-> 30, audio |-> 30, animation |-> 20, sync |-> 10]}

WeightSum(w) == w.visual + w.audio + w.animation + w.sync

\* C12: under a configuration whose qualityWeights do not sum to 1.0 the
\* synthesizer is rejected at setup, so it accepts no synthesis request; and
\* no run ends in ConfigurationError.
C12_WeightValidation ==
    /\ \A w \in InvalidWeights : WeightSum(w) # 100 => runs = 0
    /\ outcome.kind # "ConfigurationError"

\* C13: idempotence of scoring.  All scorecards the quality validator gives
\* for one SynchronizedPerformance are identical, likewise those of the
\* consistency validator, and no validator call changes the
\* SynchronizedPerformance it was given.
C13_ScoringIdempotent ==
    /\ [](scoring # NoValue =>
            /\ \A i, j \in 1 .. Len(scoring.quality) :
                   scoring.quality[i] = scoring.quality[j]
            /\ \A i, j \in 1 .. Len(scoring.consistency) :
                   scoring.consistency[i] = scoring.consistency[j])
    /\ [][scoring # NoValue => scoring'.input = scoring.input]_vars

\* C13 witness: each validator has been called twice on a performance whose
\* visual quality is not the built-in one.
C13_Witness ==
    /\ scoring # NoValue
    /\ Len(scoring.quality) = 2
    /\ Len(scoring.consistency) = 2
    /\ scoring.input.visual.quality = 50

C16_ValidatorsAfterSync ==
    /\ []((qualityCheck # NoValue \/ consistencyCheck # NoValue) =>
            /\ Synchronized
            /\ qualityCheck = validateQuality(synchronizedOutput)
            /\ consistencyCheck = validateConsistency(synchronizedOutput))
    /\ [][(Synchronized /\ pc' # "awaitGenerators") =>
              synchronizedOutput' = synchronizedOutput]_vars

\* C16 witness: both validators have just run on a synchronized performance
\* built from generator results that are not the built-in ones.
C16_Witness ==
    /\ pc = "awaitValidators"
    /\ Synchronized
    /\ qualityCheck # NoValue
    /\ consistencyCheck # NoValue
    /\ synchronizedOutput.visual.quality = 50
    /\ synchronizedOutput.animation.duration = 1200

\* the reference duration: the longest of the three
ReferenceDuration(s) ==
    Max2(s.visual.duration, Max2(s.audio.duration, s.animation.duration))

\* C17: in every successful synchronization of three positive durations,
\* each modality's playback rate, reference duration over its own duration,
\* lies between 0.85 and 1.15.
C17_RateBounds ==
    (Synchronized /\ \A m \in Modalities : synchronizedOutput[m].duration > 0) =>
        \A m \in Modalities :
            /\ 85 * synchronizedOutput[m].duration
                   <= 100 * ReferenceDuration(synchronizedOutput)
            /\ 100 * ReferenceDuration(synchronizedOutput)
                   <= 115 * synchronizedOutput[m].duration

\* the distinct timing hints of an instruction set
DistinctAnchors(i) == {i.anchors[k] : k \in 1 .. Len(i.anchors)}

\* C18: cadence fallback.  When the instruction set has fewer than 2
\* distinct anchor timestamps and synchronization succeeded on durations
\* within tolerance, sync_points is non-empty and its points are 200 ms
\* apart.
C18_CadenceFallback ==
    (Synchronized /\ WithinTolerance(gen)
         /\ Cardinality(DistinctAnchors(instructions)) < 2) =>
        LET sp == synchronizedOutput.synchronization.sync_points
        IN  /\ Len(sp) > 0
            /\ \A k \in 1 .. Len(sp) - 1 :
                   sp[k + 1].timestamp - sp[k].timestamp = 200

RECURSIVE AccuracySum(_)
AccuracySum(sp) ==
    IF sp = <<>> THEN 0 ELSE Head(sp).alignment_accuracy + AccuracySum(Tail(sp))

\* C19: for every successful synchronization sync_points is non-empty, every
\* alignment_accuracy lies in [0,1], and timing_alignment is their mean, so
\* it lies in [0,1] too.
C19_TimingAlignment ==
    Synchronized =>
        LET sync == synchronizedOutput.synchronization
        IN  /\ Len(sync.sync_points) > 0
            /\ \A k \in 1 .. Len(sync.sync_points) :
                   sync.sync_points[k].alignment_accuracy \in 0 .. 100
            /\ sync.timing_alignment \in 0 .. 100
            /\ sync.timing_alignment * Len(sync.sync_points)
                   = AccuracySum(sync.sync_points)

\* C20: the aggregate quality score is the weighted mean, under every
\* configuration of weights summing to 1.0, of the three self-reported
\* overall qualities of the scored performance and of a timing_alignment in
\* [0,1].
C20_WeightedMean ==
    qualityCheck # NoValue =>
        \A w \in ValidWeights :
            \E ta \in 0 .. 100 :
                100 * qualityCheck.overall_quality
                    = w.visual * synchronizedOutput.visual.quality
                      + w.audio * synchronizedOutput.audio.quality
                      + w.animation * synchronizedOutput.animation.quality
                      + w.sync * ta

\* C21: a FinalPerformance exists exactly in the runs that got past both
\* validators, at most one per run, and the object a successful run returns
\* bundles the three modality outputs with the synchronization timeline, the
\* quality metrics and the consistency metrics.
C21_FinalPerformanceBundle ==
    /\ finalPerformance # NoValue <=> pc \in {"awaitFinal", "returned"}
    /\ pc = "thrown" => ~PerformanceReturned
    /\ pc = "returned" =>
           /\ {"visual", "audio", "animation", "synchronization",
               "quality_metrics", "consistency_metrics"} \subseteq DOMAIN outcome
           /\ outcome.synchronization = synchronizedOutput.synchronization
           /\ outcome.quality_metrics = qualityCheck
           /\ outcome.consistency_metrics = consistencyCheck

\* the CharacterVoice made of the defaults alone
NeutralVoice ==
    [timbre |-> "neutral", pitch |-> 50, tempo |-> 50, accent |-> "neutral",
     speech_patterns |-> <<>>, vocal_habits |-> <<>>]

\* no voice field of the ontology holds a usable value
VoiceFieldsAbsent(ontology) ==
    \/ ~ontology.voiceIdentity.present
    \/ /\ StringOr(ontology.voiceIdentity.value.voiceType, "") = ""
       /\ StringOr(ontology.voiceIdentity.value.accent, "") = ""
       /\ ~ontology.voiceIdentity.value.speechPatterns.present

\* C22: no step of any synthesizePerformance call changes the synthesizer's
\* characterModel, which stays the one the constructor built; and an ontology
\* without voice identity fields gives a model with the neutral voice defaults
\* instead of a failed construction.
C22_CharacterModelReadOnly ==
    /\ [][characterModel' = characterModel]_vars
    /\ [](characterModel = initializeCharacterModel(characterOntology))
    /\ [](VoiceFieldsAbsent(characterOntology) =>
              characterModel.baseVoice = NeutralVoice)

C22_Witness ==
    /\ ~characterOntology.voiceIdentity.present
    /\ characterModel.baseVoice = NeutralVoice
    /\ runs = 2
    /\ pc = "returned"

----------------------------------------------------------------------------
(* Concurrent calls: each request of Requests is one synthesizePerformance  *)
(* call on the same synthesizer, holding the locals of the call in req[r];  *)
(* the steps of the calls interleave freely and the clock may advance       *)
(* between any two of them.                                                 *)

\* clock readings per behaviour
MaxClock == 1

requestFrame == <<coreVars, scoring, modelVars, panelVars, creatorVars>>

\* the clock advances
Tick ==
    /\ now < MaxClock
    /\ now' = now + 1
    /\ UNCHANGED <<coreVars, scoring, modelVars, req, panelVars, creatorVars>>

RequestSynthesize(r, cid, anchors) ==
    /\ req[r].pc = "idle"
    /\ req' = [req EXCEPT ![r] =
                  [NoRequest EXCEPT
                      !.instructions = [kind |-> "PerformanceInstructionSet",
                                        characterId |-> cid,
                                        anchors |-> anchors],
                      !.gen = [m \in Modalities |-> Pending],
                      !.pc = "awaitGenerators"]]
    /\ UNCHANGED <<requestFrame, clockVars>>

RequestGeneratorFulfils(r, m, d, q) ==
    /\ req[r].gen[m].status = "pending"
    /\ req' = [req EXCEPT ![r].gen[m] = Fulfilled(d, q)]
    /\ UNCHANGED <<requestFrame, clockVars>>

RequestGeneratorRejects(r, m, c) ==
    /\ req[r].gen[m].status = "pending"
    /\ req' = [req EXCEPT
                  ![r].gen[m] = Rejected(c),
                  ![r].allRejection =
                      IF @ = NoValue
                      THEN [kind |-> "rejection", modality |-> m, cause |-> c]
                      ELSE @]
    /\ UNCHANGED <<requestFrame, clockVars>>

\* a phase 2 that keeps the last synchronized output on the synthesizer
RequestResumeSynchronizeCaching(r) ==
    /\ req[r].pc = "awaitGenerators"
    /\ req[r].allRejection = NoValue
    /\ PromiseAllFulfilled(req[r].gen)
    /\ req' = [req EXCEPT
                  ![r].synchronizedOutput =
                      synchronizeOutputs(Performance(req[r].gen["visual"]),
                                         Performance(req[r].gen["audio"]),
                                         Performance(req[r].gen["animation"])),
                  ![r].pc = "awaitSynchronize"]
    /\ characterModel' =
           [characterModel EXCEPT
               !.performanceModifications =
                   synchronizeOutputs(Performance(req[r].gen["visual"]),
                                      Performance(req[r].gen["audio"]),
                                      Performance(req[r].gen["animation"]))]
    /\ UNCHANGED <<coreVars, scoring, characterOntology, clockVars, panelVars,
                   creatorVars>>

RequestResumeSynchronize(r) ==
    /\ req[r].pc = "awaitGenerators"
    /\ req[r].allRejection = NoValue
    /\ PromiseAllFulfilled(req[r].gen)
    /\ req' = [req EXCEPT
                  ![r].synchronizedOutput =
                      synchronizeOutputs(Performance(req[r].gen["visual"]),
                                         Performance(req[r].gen["audio"]),
                                         Performance(req[r].gen["animation"])),
                  ![r].pc = "awaitSynchronize"]
    /\ UNCHANGED <<requestFrame, clockVars>>

RequestResumeValidate(r) ==
    /\ req[r].pc = "awaitSynchronize"
    /\ req' = [req EXCEPT
                  ![r].qualityCheck = validateQuality(req[r].synchronizedOutput),
                  ![r].consistencyCheck =
                      validateConsistency(req[r].synchronizedOutput),
                  ![r].pc = "awaitValidators"]
    /\ UNCHANGED <<requestFrame, clockVars>>

RequestResumeFinal(r) ==
    /\ req[r].pc = "awaitValidators"
    /\ req' = [req EXCEPT
                  ![r].finalPerformance =
                      generateFinalPerformance(req[r].synchronizedOutput,
                                               req[r].qualityCheck,
                                               req[r].consistencyCheck),
                  ![r].pc = "awaitFinal"]
    /\ UNCHANGED <<requestFrame, clockVars>>

RequestReturn(r) ==
    /\ req[r].pc = "awaitFinal"
    /\ req' = [req EXCEPT
                  ![r].outcome = ReturnValue(req[r].gen, req[r].qualityCheck,
                                             req[r].consistencyCheck),
                  ![r].pc = "returned"]
    /\ UNCHANGED <<requestFrame, clockVars>>

RequestCatch(r) ==
    /\ req[r].pc = "awaitGenerators"
    /\ req[r].allRejection # NoValue
    /\ req' = [req EXCEPT
                  ![r].outcome = ThrownError(req[r].allRejection.cause),
                  ![r].pc = "thrown"]
    /\ UNCHANGED <<requestFrame, clockVars>>

\* generator results of the concurrent calls: one duration, the built-in
\* quality, either cause
RequestDurations == {1000}

RequestsNext ==
    \/ Tick
    \/ \E r \in Requests, cid \in CharacterIds : RequestSynthesize(r, cid, <<>>)
    \/ \E r \in Requests, m \in Modalities, d \in RequestDurations :
           RequestGeneratorFulfils(r, m, d, BuiltinQuality(m))
    \/ \E r \in Requests, m \in Modalities, c \in Causes :
           RequestGeneratorRejects(r, m, c)
    \/ \E r \in Requests : RequestResumeSynchronize(r)
    \/ \E r \in Requests : RequestResumeValidate(r)
    \/ \E r \in Requests : RequestResumeFinal(r)
    \/ \E r \in Requests : RequestReturn(r)
    \/ \E r \in Requests : RequestCatch(r)

SpecRequests == Init /\ [][RequestsNext]_vars

RequestEnded(r) == req[r].pc \in {"returned", "thrown"}

\* what a call was given: its instructions and what its generators did,
\* the rejection Promise.all saw first included
SameInputs(a, b) ==
    /\ a.instructions = b.instructions
    /\ a.gen = b.gen
    /\ a.allRejection = b.allRejection

\* an outcome with its two clock readings blanked
WithoutClock(o) ==
    IF o.kind = "SynthesizedPerformance"
    THEN [o EXCEPT !.timestamp = 0, !.metadata.generationTime = 0]
    ELSE o

\* C23 as stated: two calls given the same instructions and the same generator
\* results end with identical outcomes.
C23_IdenticalOutcomes ==
    (RequestEnded(1) /\ RequestEnded(2) /\ SameInputs(req[1], req[2]))
        => req[1].outcome = req[2].outcome

\* C23: two calls given the same instructions and the same generator results
\* end with outcomes that are identical once the two clock readings
\* (timestamp, metadata.generationTime) are set aside.
C23_IdenticalButClock ==
    (RequestEnded(1) /\ RequestEnded(2) /\ SameInputs(req[1], req[2]))
        => WithoutClock(req[1].outcome) = WithoutClock(req[2].outcome)

C23_Witness ==
    /\ req[1].pc = "returned"
    /\ req[2].pc = "returned"
    /\ SameInputs(req[1], req[2])
    /\ req[1].outcome.timestamp # req[2].outcome.timestamp

\* what a call with the locals q returns when it runs alone
SequentialOutcome(q) ==
    IF q.allRejection # NoValue
    THEN ThrownError(q.allRejection.cause)
    ELSE ReturnValue(q.gen,
                     validateQuality(
                         synchronizeOutputs(Performance(q.gen["visual"]),
                                            Performance(q.gen["audio"]),
                                            Performance(q.gen["animation"]))),
                     validateConsistency(
                         synchronizeOutputs(Performance(q.gen["visual"]),
                                            Performance(q.gen["audio"]),
                                            Performance(q.gen["animation"]))))

\* C24: a step of one request changes the locals of that request only and
\* never the synthesizer they share, and under every interleaving a request
\* ends with the outcome it has when it runs alone (clock readings aside).
C24_RequestIsolation ==
    /\ [][characterModel' = characterModel]_vars
    /\ [][\A r \in Requests :
              req'[r] # req[r] => \A o \in Requests \ {r} : req'[o] = req[o]]_vars
    /\ [](\A r \in Requests :
              RequestEnded(r) =>
                  WithoutClock(req[r].outcome)
                      = WithoutClock(SequentialOutcome(req[r])))

C24_Witness ==
    /\ req[1].pc = "returned"
    /\ req[2].pc = "awaitValidators"
    /\ req[1].instructions # req[2].instructions

----------------------------------------------------------------------------
(* PerformanceSynthesizer component                                         *)
(* (src/components/casting-studio/PerformanceSynthesizer.tsx): each click   *)
(* on the start button runs handleSynthesizePerformance, an async loop that *)
(* sets synthesisStatus and then waits on a timer, once per phase.          *)
(* synthesisRuns[k] is the index of the phases entry whose wait run k is    *)
(* in, or Len(phases) once its loop has ended.                              *)

\* clicks on the start button per behaviour
MaxSynthesisRuns == 5

\* the phases array of handleSynthesizePerformance (index 0 is phases[1])
phases ==
    <<[phase |-> "visual", message |-> "Generating visual performance...",
       duration |-> 2000],
      [phase |-> "audio", message |-> "Synthesizing character voice...",
       duration |-> 1500],
      [phase |-> "animation", message |-> "Creating character animation...",
       duration |-> 2500],
      [phase |-> "sync", message |-> "Synchronizing all modalities...",
       duration |-> 1000],
      [phase |-> "complete", message |-> "Performance synthesis complete!",
       duration |-> 500]>>

\* a progress that counts the phases finished instead of the phases begun
ProgressOfFinished(index) == (index * 100) \div Len(phases)

\* ((index + 1) / phases.length) * 100: 20, 40, 60, 80, 100, which the
\* floating-point evaluation gives exactly
Progress(index) == ((index + 1) * 100) \div Len(phases)

\* the argument of setSynthesisStatus in iteration index of the loop
StatusOf(index) ==
    [phase |-> phases[index + 1].phase,
     progress |-> Progress(index),
     message |-> phases[index + 1].message]

\* a start button that is never disabled
StartButtonAlwaysEnabled == TRUE

\* the start button is not disabled
StartButtonEnabled == synthesisStatus.phase \in {"idle", "complete"}

\* getPhaseStatus with the comparison of the indexes turned around
getPhaseStatusReversed(targetPhase) ==
    IF synthesisStatus.phase = "idle" THEN "pending"
    ELSE IF synthesisStatus.phase = targetPhase THEN "active"
    ELSE LET indexOf(p) == CHOOSE i \in 1 .. Len(phases) : phases[i].phase = p
         IN IF indexOf(synthesisStatus.phase) < indexOf(targetPhase)
            THEN "complete" ELSE "pending"

\* getPhaseStatus
getPhaseStatus(targetPhase) ==
    IF synthesisStatus.phase = "idle" THEN "pending"
    ELSE IF synthesisStatus.phase = targetPhase THEN "active"
    ELSE LET indexOf(p) == CHOOSE i \in 1 .. Len(phases) : phases[i].phase = p
         IN IF indexOf(synthesisStatus.phase) > indexOf(targetPhase)
            THEN "complete" ELSE "pending"

panelFrame == <<coreVars, scoring, clockVars, modelVars, req, creatorVars>>

\* a click on the start button: handleSynthesizePerformance runs up to its
\* first await, setting the status of iteration 0
handleSynthesizePerformance ==
    /\ StartButtonEnabled
    /\ Len(synthesisRuns) < MaxSynthesisRuns
    /\ synthesisStatus' = StatusOf(0)
    /\ synthesisRuns' = Append(synthesisRuns, 0)
    /\ UNCHANGED panelFrame

\* the timer run k waits on fires: the loop goes to its next iteration and
\* sets the status, or ends after the last one
TimerFires(k) ==
    /\ synthesisRuns[k] < Len(phases)
    /\ synthesisRuns' = [synthesisRuns EXCEPT ![k] = @ + 1]
    /\ synthesisStatus' = IF synthesisRuns[k] + 1 < Len(phases)
                          THEN StatusOf(synthesisRuns[k] + 1)
                          ELSE synthesisStatus
    /\ UNCHANGED panelFrame

PanelNext ==
    \/ handleSynthesizePerformance
    \/ \E k \in DOMAIN synthesisRuns : TimerFires(k)

SpecPanel == Init /\ [][PanelNext]_vars

\* the order of the phases and of the tiles, as the claims about them give it
PhaseOrder == <<"visual", "audio", "animation", "sync", "complete">>

\* C25: every change of synthesisStatus is the next step of the fixed order
\* visual, audio, animation, sync, complete with progress 20, 40, 60, 80, 100
\* (a run begins it from 'idle' or 'complete'); progress drops only when a new
\* run starts; the phase is 'complete' exactly when progress is 100; and once
\* it has left 'idle' the phase never is 'idle' again.
C25_StatusProgression ==
    /\ [][synthesisStatus' # synthesisStatus =>
              \E i \in 1 .. 5 :
                  /\ synthesisStatus'.phase = PhaseOrder[i]
                  /\ synthesisStatus'.progress = 20 * i
                  /\ IF i = 1
                     THEN /\ synthesisStatus.phase \in {"idle", "complete"}
                          /\ Len(synthesisRuns') = Len(synthesisRuns) + 1
                     ELSE /\ synthesisStatus.phase = PhaseOrder[i - 1]
                          /\ Len(synthesisRuns') = Len(synthesisRuns)]_vars
    /\ [][synthesisStatus'.progress < synthesisStatus.progress =>
              Len(synthesisRuns') > Len(synthesisRuns)]_vars
    /\ [](synthesisStatus.phase = "complete" <=> synthesisStatus.progress = 100)
    /\ [][synthesisStatus.phase # "idle" => synthesisStatus'.phase # "idle"]_vars

C25_Witness ==
    /\ Len(synthesisRuns) = 2
    /\ synthesisRuns[1] = Len(phases)
    /\ synthesisRuns[2] = Len(phases) - 1
    /\ synthesisStatus.phase = "complete"
    /\ synthesisStatus.progress = 100

\* run k still has a setSynthesisStatus call to make
HasUpdatesLeft(k) == synthesisRuns[k] < Len(phases) - 1

\* C26: at most one run has a status update left to make, and whenever the
\* start button is enabled no run has one, also while an earlier run is still
\* in its final wait after setting 'complete'.
C26_RunExclusion ==
    /\ Cardinality({k \in DOMAIN synthesisRuns : HasUpdatesLeft(k)}) <= 1
    /\ StartButtonEnabled =>
           \A k \in DOMAIN synthesisRuns : ~HasUpdatesLeft(k)

C26_Witness ==
    /\ Len(synthesisRuns) = 2
    /\ synthesisRuns[1] = Len(phases) - 1
    /\ synthesisRuns[2] = 1
    /\ synthesisStatus.phase = "audio"

\* C27: in 'idle' every tile is 'pending'; in any other phase the tile of the
\* current phase is the only 'active' one, the tiles before it are 'complete'
\* and the tiles after it are 'pending'.
C27_PhaseTiles ==
    IF synthesisStatus.phase = "idle"
    THEN \A i \in 1 .. 5 : getPhaseStatus(PhaseOrder[i]) = "pending"
    ELSE \E c \in 1 .. 5 :
             /\ PhaseOrder[c] = synthesisStatus.phase
             /\ \A i \in 1 .. 5 :
                    getPhaseStatus(PhaseOrder[i]) =
                        IF i = c THEN "active"
                        ELSE IF i < c THEN "complete" ELSE "pending"

C27_Witness ==
    /\ synthesisStatus.phase = "animation"
    /\ getPhaseStatus("visual") = "complete"
    /\ getPhaseStatus("animation") = "active"
    /\ getPhaseStatus("complete") = "pending"

----------------------------------------------------------------------------
(* CharacterCreator and CastingStudioDashboard                              *)
(* (src/components/casting-studio/CastingStudioDashboard.tsx) with the      *)
(* CharacterDefinitionEngine.createCharacter calls the creator makes        *)
(* (src/lib/types/character-types.ts).  A description is a sequence of      *)
(* characters.  creations[k] is the k-th createCharacter call: the phases   *)
(* it has run so far, how it settled, and whether handleCreateCharacter has *)
(* resumed from awaiting it.  Each awaited phase may resolve or reject.     *)

\* createCharacter calls per behaviour
MaxCreations == 2

\* what the user may type: nothing, blanks, text, text with blanks around it
Descriptions == {<<>>, <<" ", " ">>, <<"M">>, <<" ", "M", " ">>}

\* the tabs the user may select ('projects' and 'analytics' are like 'overview')
Tabs == {"overview", "create", "characters"}

\* the message of the error a failing phase throws
PhaseErrors == {"phase failed"}

RECURSIVE TrimStart(_)
TrimStart(d) == IF d # <<>> /\ Head(d) = " " THEN TrimStart(Tail(d)) ELSE d

RECURSIVE TrimEnd(_)
TrimEnd(d) ==
    IF d # <<>> /\ d[Len(d)] = " " THEN TrimEnd(SubSeq(d, 1, Len(d) - 1)) ELSE d

\* String.prototype.trim
Trim(d) == TrimEnd(TrimStart(d))

\* the phases of createCharacter, in the order of its statements
EnginePhases ==
    <<"extract", "archetype", "psychometric", "backstory", "construct",
      "validate">>

\* a createCharacter call that has just been made: phase 1 has been called
NewCreation(d, id) ==
    [status |-> "running", description |-> d, id |-> id,
     ran |-> <<"extract">>, failedAt |-> "none", result |-> NoValue,
     resumed |-> FALSE]

\* the ontology constructCharacterOntology builds, as far as it depends on
\* the call (id stands for the generated character id)
ConstructedCharacter(c) ==
    [kind |-> "character", id |-> c.id, background |-> c.description]

\* the Error the catch block of createCharacter throws
CreationError(message) ==
    [kind |-> "Error", prefix |-> "Character creation failed",
     message |-> message]

\* a create button that is disabled on a blank description only
CreateButtonDisabledOnBlank == Trim(description) = <<>>

\* the create button is disabled
CreateButtonDisabled == isCreating \/ Trim(description) = <<>>

creatorFrame == <<coreVars, scoring, clockVars, modelVars, req, panelVars>>

\* a dashboard callback that keeps the created character only
handleCharacterCreatedReplacing(c) ==
    /\ characters' = <<c>>
    /\ activeTab' = "characters"

\* CastingStudioDashboard.handleCharacterCreated
handleCharacterCreated(c) ==
    /\ characters' = Append(characters, c)
    /\ activeTab' = "characters"

\* handleCreateCharacter up to its await
handleCreateCharacter ==
    /\ IF Trim(description) = <<>>
       THEN /\ lastToast' = "Description Required"
            /\ UNCHANGED <<isCreating, creations>>
       ELSE /\ Len(creations) < MaxCreations
            /\ isCreating' = TRUE
            /\ creations' = Append(creations,
                                   NewCreation(description, Len(creations) + 1))
            /\ UNCHANGED lastToast
    /\ UNCHANGED <<description, character, characters, activeTab>>
    /\ UNCHANGED creatorFrame

\* a click on the create button, which the form shows while no character is
\* displayed
ClickCreate ==
    /\ character = NoValue
    /\ ~CreateButtonDisabled
    /\ handleCreateCharacter

\* handleCreateCharacter run on a blank description: the disabled button
\* keeps clicks away then, and the handler checks again for itself
CallWhileBlank ==
    /\ Trim(description) = <<>>
    /\ handleCreateCharacter

\* the user edits the description
setDescription(d) ==
    /\ character = NoValue
    /\ description' = d
    /\ UNCHANGED <<isCreating, character, lastToast, creations, characters,
                   activeTab>>
    /\ UNCHANGED creatorFrame

\* the user selects a tab
setActiveTab(tab) ==
    /\ activeTab' = tab
    /\ UNCHANGED <<description, isCreating, character, lastToast, creations,
                   characters>>
    /\ UNCHANGED creatorFrame

\* 'Create New Character', shown while a character is displayed
handleReset ==
    /\ character # NoValue
    /\ character' = NoValue
    /\ description' = <<>>
    /\ UNCHANGED <<isCreating, lastToast, creations, characters, activeTab>>
    /\ UNCHANGED creatorFrame

\* the phase call k is awaiting
Awaited(c) == c.ran[Len(c.ran)]

\* the awaited phase of call k resolves: the next phase is called; after the
\* backstory, constructCharacterOntology runs and the validator is called;
\* after the validator, createCharacter returns the character
EnginePhaseResolves(k) ==
    /\ creations[k].status = "running"
    /\ creations' =
           [creations EXCEPT ![k] =
               IF Awaited(creations[k]) = "validate"
               THEN [creations[k] EXCEPT
                        !.status = "fulfilled",
                        !.result = ConstructedCharacter(creations[k])]
               ELSE IF Awaited(creations[k]) = "backstory"
               THEN [creations[k] EXCEPT
                        !.ran = @ \o <<"construct", "validate">>]
               ELSE [creations[k] EXCEPT
                        !.ran = Append(@, EnginePhases[Len(@) + 1])]]
    /\ UNCHANGED <<description, isCreating, character, lastToast, characters,
                   activeTab>>
    /\ UNCHANGED creatorFrame

\* a createCharacter that notes the failure of a phase and carries on
EnginePhaseRejectsContinuing(k, message) ==
    /\ creations[k].status = "running"
    /\ creations' =
           [creations EXCEPT ![k] =
               IF Awaited(creations[k]) = "validate"
               THEN [creations[k] EXCEPT
                        !.failedAt = "validate",
                        !.status = "fulfilled",
                        !.result = ConstructedCharacter(creations[k])]
               ELSE [creations[k] EXCEPT
                        !.failedAt = Awaited(creations[k]),
                        !.ran = Append(@, EnginePhases[Len(@) + 1])]]
    /\ UNCHANGED <<description, isCreating, character, lastToast, characters,
                   activeTab>>
    /\ UNCHANGED creatorFrame

\* the awaited phase of call k rejects: the catch block throws the wrapped
\* error and the call is over
EnginePhaseRejects(k, message) ==
    /\ creations[k].status = "running"
    /\ creations' = [creations EXCEPT ![k] =
                        [creations[k] EXCEPT
                                  !.failedAt = Awaited(creations[k]),
                                  !.status = "rejected",
                                  !.result = CreationError(message)]]
    /\ UNCHANGED <<description, isCreating, character, lastToast, characters,
                   activeTab>>
    /\ UNCHANGED creatorFrame

\* the backstory resolves and constructCharacterOntology throws
ConstructThrows(k, message) ==
    /\ creations[k].status = "running"
    /\ Awaited(creations[k]) = "backstory"
    /\ creations' = [creations EXCEPT ![k] =
                        [creations[k] EXCEPT
                                  !.ran = Append(@, "construct"),
                                  !.failedAt = "construct",
                                  !.status = "rejected",
                                  !.result = CreationError(message)]]
    /\ UNCHANGED <<description, isCreating, character, lastToast, characters,
                   activeTab>>
    /\ UNCHANGED creatorFrame

\* handleCreateCharacter resumes from awaiting call k: the try block goes on
\* or the catch block runs, then the finally block
HandlerResumes(k) ==
    /\ creations[k].status \in {"fulfilled", "rejected"}
    /\ ~creations[k].resumed
    /\ creations' = [creations EXCEPT ![k].resumed = TRUE]
    /\ IF creations[k].status = "fulfilled"
       THEN /\ character' = creations[k].result
            /\ handleCharacterCreated(creations[k].result)
            /\ lastToast' = "Character Created Successfully"
       ELSE /\ lastToast' = "Character Creation Failed"
            /\ UNCHANGED <<character, characters, activeTab>>
    /\ isCreating' = FALSE
    /\ UNCHANGED description
    /\ UNCHANGED creatorFrame

CreatorNext ==
    \/ ClickCreate
    \/ CallWhileBlank
    \/ \E d \in Descriptions : setDescription(d)
    \/ \E tab \in Tabs : setActiveTab(tab)
    \/ handleReset
    \/ \E k \in DOMAIN creations : EnginePhaseResolves(k)
    \/ \E k \in DOMAIN creations, message \in PhaseErrors :
           EnginePhaseRejects(k, message)
    \/ \E k \in DOMAIN creations, message \in PhaseErrors :
           ConstructThrows(k, message)
    \/ \E k \in DOMAIN creations : HandlerResumes(k)

SpecCreator == Init /\ [][CreatorNext]_vars

\* handleCreateCharacter has not resumed from awaiting call k
InFlight(k) == ~creations[k].resumed

\* C28: with a blank or whitespace-only description no step calls the engine
\* or sets isCreating; isCreating is true exactly while a createCharacter call
\* is in flight, false again once the handler is through with it, however the
\* call ended; and at most one call is in flight at a time.
C28_CreationInFlight ==
    /\ [](isCreating <=> \E k \in DOMAIN creations : InFlight(k))
    /\ [](Cardinality({k \in DOMAIN creations : InFlight(k)}) <= 1)
    /\ [][Trim(description) = <<>> =>
              /\ Len(creations') = Len(creations)
              /\ isCreating' => isCreating]_vars

C28_Witness ==
    /\ Len(creations) = 2
    /\ creations[1].status = "rejected"
    /\ creations[1].resumed
    /\ InFlight(2)
    /\ isCreating
    /\ lastToast = "Description Required"

\* call k ended with a character and the handler has dealt with it
Delivered(k) == creations[k].resumed /\ creations[k].status = "fulfilled"

\* C29: characters only ever grows at its end; the step in which the handler
\* resumes from a successful creation appends the created character and makes
\* 'characters' the active tab, so that each created character is in the list
\* exactly once and nothing else is; the step in which it resumes from a
\* failed creation, and a call on a blank description, leave the list, the
\* displayed character and the active tab as they were.
C29_CharactersAppendOnly ==
    /\ [][/\ Len(characters') >= Len(characters)
          /\ SubSeq(characters', 1, Len(characters)) = characters]_vars
    /\ [][\A k \in DOMAIN creations :
              (~creations[k].resumed /\ creations'[k].resumed) =>
                  IF creations[k].status = "fulfilled"
                  THEN /\ characters' = Append(characters, creations[k].result)
                       /\ character' = creations[k].result
                       /\ activeTab' = "characters"
                  ELSE /\ characters' = characters
                       /\ character' = character
                       /\ activeTab' = activeTab]_vars
    /\ [][(lastToast' = "Description Required" /\ lastToast' # lastToast) =>
              /\ characters' = characters
              /\ character' = character
              /\ activeTab' = activeTab]_vars
    /\ [](\A k \in DOMAIN creations :
              Delivered(k) =>
                  Cardinality({i \in DOMAIN characters :
                                   characters[i] = creations[k].result}) = 1)
    /\ [](Len(characters) = Cardinality({k \in DOMAIN creations : Delivered(k)}))

C29_Witness ==
    /\ Len(characters) = 2
    /\ characters[1] = creations[1].result
    /\ characters[2] = creations[2].result
    /\ characters[1] # characters[2]
    /\ activeTab = "characters"

IsPrefix(s, t) == Len(s) <= Len(t) /\ SubSeq(t, 1, Len(s)) = s

\* C30: the phases a createCharacter call has run are always a beginning of
\* extract, archetype, psychometric, backstory, construct, validate, and grow
\* one after the other; a call in which a phase failed has run nothing after
\* that phase and ends with an error prefixed 'Character creation failed'
\* instead of a character; a call that returns a character has run them all.
C30_PhasesInOrder ==
    /\ [](\A k \in DOMAIN creations : IsPrefix(creations[k].ran, EnginePhases))
    /\ [][\A k \in DOMAIN creations :
              IsPrefix(creations[k].ran, creations'[k].ran)]_vars
    /\ [](\A k \in DOMAIN creations :
              creations[k].failedAt # "none" =>
                  /\ Awaited(creations[k]) = creations[k].failedAt
                  /\ creations[k].status = "rejected"
                  /\ creations[k].result
                         \in {CreationError(message) : message \in PhaseErrors}
                  /\ creations[k].result.prefix = "Character creation failed")
    /\ [](\A k \in DOMAIN creations :
              creations[k].status = "fulfilled" =>
                  /\ creations[k].ran = EnginePhases
                  /\ creations[k].failedAt = "none"
                  /\ creations[k].result.kind = "character")

C30_Witness ==
    /\ Len(creations) = 2
    /\ creations[1].failedAt = "psychometric"
    /\ creations[1].ran = <<"extract", "archetype", "psychometric">>
    /\ creations[1].status = "rejected"
    /\ creations[2].status = "fulfilled"

====
